---------------------------- MODULE Spec2Model ----------------------------
(***************************************************************************)
(* A model of src/datastructures/avltree.py: the AVLNode record, the       *)
(* AVLTree operations (insert, search, delete, the traversals, size) and   *)
(* the rebalancing helpers (update_height, balance, rotate_left,           *)
(* rotate_right, _min_value_node).                                         *)
(*                                                                         *)
(* A node is a record [id, key, value, left, right, height]; `id` stands   *)
(* for the identity of the Python object.  The tree is strictly            *)
(* hierarchical (no node is shared), so the in-place mutation of the code  *)
(* is modelled by rebuilding the record on the way back up the recursion.  *)
(* Every mutating helper returns, next to the subtree, the log of the      *)
(* update_height / balance / rotate calls it made, in call order.          *)
(***************************************************************************)
EXTENDS Integers, Sequences, FiniteSets, TLC

VARIABLES root, ref, hist

vars == <<root, ref, hist>>

\* ---------------------------------------------------------------- inputs
\* Keys and values the callers of the main specification draw from.
Keys == {10, 20, 30}

Values == {"a", "b"}

\* The number of nodes up to which insert is explored.
MaxNodes == 5

\* Python's None, as a search result and as an absent child.
None == "None"

Nil == [nil |-> TRUE]

Max(a, b) == IF a > b THEN a ELSE b

\* ------------------------------------------------------------------ AVLNode
AVLNode(nid, key, value) ==
    [id |-> nid, key |-> key, value |-> value,
     left |-> Nil, right |-> Nil, height |-> 1]

get_height(node) == node.height

\* `x.get_height if x else 0`
height_or_0(x) == IF x # Nil THEN get_height(x) ELSE 0

balance_factor(node) ==
    LET left_height  == height_or_0(node.left)
        right_height == height_or_0(node.right)
    IN  left_height - right_height

\* ---------------------------------------------------------------- helpers
\* A call f(node) of one of the helpers, as the call log records it: the
\* node's identity, its balance factor when the call began, and the node.
Ev(f, node) ==
    [f |-> f, id |-> node.id, bf |-> balance_factor(node), arg |-> node]

update_height(node) ==
    LET left_height  == height_or_0(node.left)
        right_height == height_or_0(node.right)
    IN  [node EXCEPT !.height = Max(left_height, right_height) + 1]

\* rotate_right with the two update_height calls in the wrong order.
rotate_right_stale(node) ==
    LET new_root  == node.left
        node1     == [node EXCEPT !.left = new_root.right]
        new_root1 == update_height([new_root EXCEPT !.right = node1])
    IN  [new_root1 EXCEPT !.right = update_height(node1)]

rotate_right(node) ==
    LET new_root == node.left
        node1    == update_height([node EXCEPT !.left = new_root.right])
    IN  update_height([new_root EXCEPT !.right = node1])

\* rotate_left that does not recompute the height of the old root.
rotate_left_norecompute(node) ==
    LET new_root == node.right
        node1    == [node EXCEPT !.right = new_root.left]
    IN  update_height([new_root EXCEPT !.left = node1])

rotate_left(node) ==
    LET new_root == node.right
        node1    == update_height([node EXCEPT !.right = new_root.left])
    IN  update_height([new_root EXCEPT !.left = node1])

\* balance without its right-heavy branch.
balance_leftonly(node) ==
    IF balance_factor(node) > 1
    THEN IF balance_factor(node.left) < 0
         THEN LET node1 == [node EXCEPT !.left = rotate_left(node.left)]
              IN  [node |-> rotate_right(node1),
                   log  |-> <<Ev("balance", node), Ev("rotate_left", node.left),
                              Ev("rotate_right", node1)>>]
         ELSE [node |-> rotate_right(node),
               log  |-> <<Ev("balance", node), Ev("rotate_right", node)>>]
    ELSE [node |-> node, log |-> <<Ev("balance", node)>>]

\* balance without the double rotations.
balance_single(node) ==
    IF balance_factor(node) > 1
    THEN [node |-> rotate_right(node),
          log  |-> <<Ev("balance", node), Ev("rotate_right", node)>>]
    ELSE IF balance_factor(node) < -1
    THEN [node |-> rotate_left(node),
          log  |-> <<Ev("balance", node), Ev("rotate_left", node)>>]
    ELSE [node |-> node, log |-> <<Ev("balance", node)>>]

\* balance rotating as soon as the two heights differ.
balance_eager(node) ==
    IF balance_factor(node) > 0
    THEN IF balance_factor(node.left) < 0
         THEN LET node1 == [node EXCEPT !.left = rotate_left(node.left)]
              IN  [node |-> rotate_right(node1),
                   log  |-> <<Ev("balance", node), Ev("rotate_left", node.left),
                              Ev("rotate_right", node1)>>]
         ELSE [node |-> rotate_right(node),
               log  |-> <<Ev("balance", node), Ev("rotate_right", node)>>]
    ELSE IF balance_factor(node) < 0
    THEN IF balance_factor(node.right) > 0
         THEN LET node1 == [node EXCEPT !.right = rotate_right(node.right)]
              IN  [node |-> rotate_left(node1),
                   log  |-> <<Ev("balance", node), Ev("rotate_right", node.right),
                              Ev("rotate_left", node1)>>]
         ELSE [node |-> rotate_left(node),
               log  |-> <<Ev("balance", node), Ev("rotate_left", node)>>]
    ELSE [node |-> node, log |-> <<Ev("balance", node)>>]

\* balance treating a heavy child of factor 0 as leaning the other way.
balance_zero(node) ==
    IF balance_factor(node) > 1
    THEN IF balance_factor(node.left) <= 0
         THEN LET node1 == [node EXCEPT !.left = rotate_left(node.left)]
              IN  [node |-> rotate_right(node1),
                   log  |-> <<Ev("balance", node), Ev("rotate_left", node.left),
                              Ev("rotate_right", node1)>>]
         ELSE [node |-> rotate_right(node),
               log  |-> <<Ev("balance", node), Ev("rotate_right", node)>>]
    ELSE IF balance_factor(node) < -1
    THEN IF balance_factor(node.right) >= 0
         THEN LET node1 == [node EXCEPT !.right = rotate_right(node.right)]
              IN  [node |-> rotate_left(node1),
                   log  |-> <<Ev("balance", node), Ev("rotate_right", node.right),
                              Ev("rotate_left", node1)>>]
         ELSE [node |-> rotate_left(node),
               log  |-> <<Ev("balance", node), Ev("rotate_left", node)>>]
    ELSE [node |-> node, log |-> <<Ev("balance", node)>>]

balance(node) ==
    IF balance_factor(node) > 1
    THEN IF balance_factor(node.left) < 0
         THEN LET node1 == [node EXCEPT !.left = rotate_left(node.left)]
              IN  [node |-> rotate_right(node1),
                   log  |-> <<Ev("balance", node), Ev("rotate_left", node.left),
                              Ev("rotate_right", node1)>>]
         ELSE [node |-> rotate_right(node),
               log  |-> <<Ev("balance", node), Ev("rotate_right", node)>>]
    ELSE IF balance_factor(node) < -1
    THEN IF balance_factor(node.right) > 0
         THEN LET node1 == [node EXCEPT !.right = rotate_right(node.right)]
              IN  [node |-> rotate_left(node1),
                   log  |-> <<Ev("balance", node), Ev("rotate_right", node.right),
                              Ev("rotate_left", node1)>>]
         ELSE [node |-> rotate_left(node),
               log  |-> <<Ev("balance", node), Ev("rotate_left", node)>>]
    ELSE [node |-> node, log |-> <<Ev("balance", node)>>]

\* _min_value_node without the descent.
_min_value_node_here(node) == node

RECURSIVE _min_value_node(_)
_min_value_node(node) ==
    IF node.left # Nil THEN _min_value_node(node.left) ELSE node

\* update_height and balance at the parent of the changed node only.
Rebalance_parentonly(node, sublog) ==
    IF sublog # <<>>
    THEN [node |-> node, log |-> sublog]
    ELSE LET node1 == update_height(node)
             b     == balance(node1)
         IN  [node |-> b.node,
              log  |-> sublog \o <<Ev("update_height", node)>> \o b.log]

\* One level of _insert / _delete after the recursive call has returned:
\* update_height(node) and then balance(node).
Rebalance(node, sublog) ==
    LET node1 == update_height(node)
        b     == balance(node1)
    IN  [node |-> b.node,
         log  |-> sublog \o <<Ev("update_height", node)>> \o b.log]

\* ------------------------------------------------------------------ insert
\* _insert overwriting the value of a key that is already stored.
RECURSIVE _insert_overwrite(_, _, _, _)
_insert_overwrite(node, key, value, nid) ==
    IF node = Nil
    THEN [node |-> AVLNode(nid, key, value), log |-> <<>>]
    ELSE IF key = node.key
    THEN [node |-> [node EXCEPT !.value = value], log |-> <<>>]
    ELSE IF key < node.key
    THEN LET r == _insert_overwrite(node.left, key, value, nid)
         IN  Rebalance([node EXCEPT !.left = r.node], r.log)
    ELSE LET r == _insert_overwrite(node.right, key, value, nid)
         IN  Rebalance([node EXCEPT !.right = r.node], r.log)

RECURSIVE _insert(_, _, _, _)
_insert(node, key, value, nid) ==
    IF node = Nil
    THEN [node |-> AVLNode(nid, key, value), log |-> <<>>]
    ELSE IF key < node.key
    THEN LET r == _insert(node.left, key, value, nid)
         IN  Rebalance([node EXCEPT !.left = r.node], r.log)
    ELSE LET r == _insert(node.right, key, value, nid)
         IN  Rebalance([node EXCEPT !.right = r.node], r.log)

\* ------------------------------------------------------------------ search
\* _search descending to the wrong side.
RECURSIVE _search_swapped(_, _)
_search_swapped(node, key) ==
    IF node = Nil THEN None
    ELSE IF key = node.key THEN node.value
    ELSE IF key < node.key THEN _search_swapped(node.right, key)
    ELSE _search_swapped(node.left, key)

RECURSIVE _search(_, _)
_search(node, key) ==
    IF node = Nil THEN None
    ELSE IF key = node.key THEN node.value
    ELSE IF key < node.key THEN _search(node.left, key)
    ELSE _search(node.right, key)

search(key) == _search(root, key)

\* ------------------------------------------------------------------ delete
RECURSIVE _delete(_, _)
_delete(node, key) ==
    IF node = Nil
    THEN [node |-> Nil, log |-> <<>>]
    ELSE IF key < node.key
    THEN LET r == _delete(node.left, key)
         IN  Rebalance([node EXCEPT !.left = r.node], r.log)
    ELSE IF key > node.key
    THEN LET r == _delete(node.right, key)
         IN  Rebalance([node EXCEPT !.right = r.node], r.log)
    ELSE IF node.left = Nil
    THEN [node |-> node.right, log |-> <<>>]
    ELSE IF node.right = Nil
    THEN [node |-> node.left, log |-> <<>>]
    ELSE LET temp  == _min_value_node(node.right)
             node1 == [node EXCEPT !.key = temp.key, !.value = temp.value]
             r     == _delete(node1.right, temp.key)
         IN  Rebalance([node1 EXCEPT !.right = r.node], r.log)

\* -------------------------------------------------------------- traversals
\* `visit` tells whether a callback is supplied; acc.keys is the list the
\* traversal returns and acc.calls the values the callback was invoked on.
\* The key appended only when a callback is supplied.
Visit_guarded(node, visit, acc) ==
    [keys  |-> IF visit THEN Append(acc.keys, node.key) ELSE acc.keys,
     calls |-> IF visit THEN Append(acc.calls, node.value) ELSE acc.calls]

Visit(node, visit, acc) ==
    [keys  |-> Append(acc.keys, node.key),
     calls |-> IF visit THEN Append(acc.calls, node.value) ELSE acc.calls]

NoKeys == [keys |-> <<>>, calls |-> <<>>]

RECURSIVE _inorder(_, _, _)
_inorder(node, visit, acc) ==
    IF node # Nil
    THEN _inorder(node.right, visit,
                  Visit(node, visit, _inorder(node.left, visit, acc)))
    ELSE acc

inorder(visit) == _inorder(root, visit, NoKeys)

RECURSIVE _preorder(_, _, _)
_preorder(node, visit, acc) ==
    IF node # Nil
    THEN _preorder(node.right, visit,
                   _preorder(node.left, visit, Visit(node, visit, acc)))
    ELSE acc

preorder(visit) == _preorder(root, visit, NoKeys)

RECURSIVE _postorder(_, _, _)
_postorder(node, visit, acc) ==
    IF node # Nil
    THEN Visit(node, visit,
               _postorder(node.right, visit,
                          _postorder(node.left, visit, acc)))
    ELSE acc

postorder(visit) == _postorder(root, visit, NoKeys)

\* bforder enqueueing the right child before the left one.
RECURSIVE bforder_loop_rl(_, _, _)
bforder_loop_rl(q, visit, acc) ==
    IF q # <<>>
    THEN LET node == Head(q)
         IN  IF node # Nil
             THEN bforder_loop_rl(Tail(q) \o <<node.right, node.left>>, visit,
                       [keys  |-> Append(acc.keys, node.key),
                        calls |-> IF visit THEN Append(acc.calls, node.value)
                                           ELSE acc.calls,
                        pops  |-> acc.pops + 1])
             ELSE bforder_loop_rl(Tail(q), visit,
                       [acc EXCEPT !.pops = acc.pops + 1])
    ELSE acc

\* The `while q:` loop of bforder: q is the deque, acc.pops counts the
\* iterations (one popleft each).
RECURSIVE bforder_loop(_, _, _)
bforder_loop(q, visit, acc) ==
    IF q # <<>>
    THEN LET node == Head(q)
         IN  IF node # Nil
             THEN bforder_loop(Tail(q) \o <<node.left, node.right>>, visit,
                       [keys  |-> Append(acc.keys, node.key),
                        calls |-> IF visit THEN Append(acc.calls, node.value)
                                           ELSE acc.calls,
                        pops  |-> acc.pops + 1])
             ELSE bforder_loop(Tail(q), visit,
                       [acc EXCEPT !.pops = acc.pops + 1])
    ELSE acc

bforder_of(tree, visit) ==
    bforder_loop(<<tree>>, visit, [keys |-> <<>>, calls |-> <<>>, pops |-> 0])

bforder(visit) == bforder_of(root, visit)

\* -------------------------------------------------------------------- size
RECURSIVE _size(_)
_size(node) ==
    IF node = Nil THEN 0 ELSE 1 + _size(node.left) + _size(node.right)

size == _size(root)

\* ------------------------------------------------------- the tree's state
\* Object identity.  While a call runs, a node that existed when the call
\* began is named by the position it held then (the root is 1, the children
\* of position p are 2p and 2p+1); a node the call constructs is named NewId.
\* The ids found in `root` therefore tell where each node was before the
\* latest call.
RECURSIVE Label(_, _)
Label(node, p) ==
    IF node = Nil THEN Nil
    ELSE [node EXCEPT !.id = p,
                      !.left = Label(node.left, 2 * p),
                      !.right = Label(node.right, 2 * p + 1)]

NewId == 0

\* The reference map: the value of the latest insert of each key that has not
\* been deleted since, None for the other keys.
RefInit == [k \in {} |-> None]

RefGet(k) == IF k \in DOMAIN ref THEN ref[k] ELSE None

RefPut(k, v) == [x \in (DOMAIN ref) \cup {k} |-> IF x = k THEN v ELSE ref[x]]

RefDel(k) == [x \in (DOMAIN ref) \ {k} |-> ref[x]]

\* hist is the log of the calls made so far, the latest last, cut to the
\* `depth` most recent ones.
Logged(call, depth) ==
    LET h == Append(hist, call)
    IN  SubSeq(h, Max(1, Len(h) - depth + 1), Len(h))

\* AVLTree.__init__ with no starting sequence.
Init ==
    /\ root = Nil
    /\ ref = RefInit
    /\ hist = <<>>

Insert(key, value, depth) ==
    LET r == _insert(Label(root, 1), key, value, NewId)
    IN  /\ root' = r.node
        /\ ref' = RefPut(key, value)
        /\ hist' = Logged([op |-> "insert", key |-> key, value |-> value,
                           log |-> r.log], depth)

Delete(key, depth) ==
    LET r == _delete(Label(root, 1), key)
    IN  /\ root' = r.node
        /\ ref' = RefDel(key)
        /\ hist' = Logged([op |-> "delete", key |-> key, value |-> None,
                           log |-> r.log], depth)

\* search with the behaviour of dict.setdefault: a key that is not found is
\* stored with None.
Search_setdefault(key, depth) ==
    LET t == Label(root, 1)
    IN  /\ root' = IF _search(t, key) = None
                   THEN _insert(t, key, None, NewId).node ELSE t
        /\ ref' = ref
        /\ hist' = Logged([op |-> "search", key |-> key,
                           value |-> _search(t, key), log |-> <<>>], depth)

\* search assigns to no field of the tree and calls none of the helpers;
\* the value it returns is logged with the call.
Search(key, depth) ==
    LET t == Label(root, 1)
    IN  /\ root' = t
        /\ ref' = ref
        /\ hist' = Logged([op |-> "search", key |-> key,
                           value |-> _search(t, key), log |-> <<>>], depth)

\* Any caller: inserts and deletes of any key, stored or not.
DoInsert == \E k \in Keys, v \in Values : size < MaxNodes /\ Insert(k, v, 1)

DoDelete == \E k \in Keys : Delete(k, 1)

Next == DoInsert \/ DoDelete

Spec == Init /\ [][Next]_vars

\* The same callers, who also search for any key.
DoSearch == \E k \in Keys : Search(k, 1)

NextSearch == DoInsert \/ DoDelete \/ DoSearch

SpecSearch == Init /\ [][NextSearch]_vars

\* The nodes of a subtree, and the keys they hold.
RECURSIVE Nodes(_)
Nodes(node) ==
    IF node = Nil THEN {} ELSE {node} \cup Nodes(node.left) \cup Nodes(node.right)

KeysOf(node) == {n.key : n \in Nodes(node)}

\* Careful callers: insert is only called with a key that is not stored.
MaxKey == 6

DistinctKeys == 1..MaxKey

InsertNew ==
    \E k \in DistinctKeys, v \in Values : k \notin KeysOf(root) /\ Insert(k, v, 1)

DeleteAny == \E k \in DistinctKeys : Delete(k, 1)

NextDistinct == InsertNew \/ DeleteAny

SpecDistinct == Init /\ [][NextDistinct]_vars

\* The scenarios of the test plan: a tree is built from the empty tree by
\* inserting the keys of one scenario in some order, then one key is deleted.
\* Here hist keeps every call since construction.
ScenarioKeySets == {{10, 20, 30}, {1, 3, 4, 5, 7, 8, 9}}

ScenarioValue(k) == IF k % 3 = 0 THEN "a" ELSE "b"

HistKeys == {hist[i].key : i \in 1..Len(hist)}

Building == \A i \in 1..Len(hist) : hist[i].op = "insert"

InScenario(k) == \E S \in ScenarioKeySets : HistKeys \cup {k} \subseteq S

ScenarioInsert ==
    \E k \in UNION ScenarioKeySets :
        /\ Building
        /\ k \notin HistKeys
        /\ InScenario(k)
        /\ Insert(k, ScenarioValue(k), Len(hist) + 1)

ScenarioDelete ==
    \E k \in UNION ScenarioKeySets :
        /\ Building
        /\ InScenario(k)
        /\ Delete(k, Len(hist) + 1)

NextScenario == ScenarioInsert \/ ScenarioDelete

SpecScenario == Init /\ [][NextScenario]_vars

\* ----------------------------------------------------------------- claims
\* The call that has just returned (hist is never empty after a call).
Last == hist[Len(hist)]

Returned(op) == hist # <<>> /\ Last.op = op

Rotations(log) ==
    SelectSeq(log, LAMBDA e : e.f \in {"rotate_left", "rotate_right"})

Abs(x) == IF x < 0 THEN -x ELSE x

\* The height of a subtree computed from its shape alone.
RECURSIVE TrueHeight(_)
TrueHeight(node) ==
    IF node = Nil THEN 0
    ELSE 1 + Max(TrueHeight(node.left), TrueHeight(node.right))

Balanced(tree) ==
    \A n \in Nodes(tree) : Abs(TrueHeight(n.left) - TrueHeight(n.right)) <= 1

StrictlyAscending(seq) == \A i \in 1..(Len(seq) - 1) : seq[i] < seq[i + 1]

\* C1: after every insert or delete, whatever the keys (stored or not), the
\* true heights of the two subtrees of every node differ by at most 1.
C1_Balance == Balanced(root)

\* A delete that had to rotate, and an insert of a stored key that had to.
C1_Witness ==
    /\ hist # <<>>
    /\ Rotations(Last.log) # <<>>
    /\ \/ Last.op = "delete"
       \/ Cardinality(KeysOf(root)) < size

\* C2: every node's left subtree holds only smaller keys and its right
\* subtree only greater keys; inorder() is strictly ascending.
C2_StrictBST ==
    /\ \A n \in Nodes(root) :
          /\ \A k \in KeysOf(n.left) : k < n.key
          /\ \A k \in KeysOf(n.right) : k > n.key
    /\ StrictlyAscending(inorder(FALSE).keys)

\* C3: insert(k, v2) of a stored key k leaves size() as it was and makes
\* search(k) return v2.
C3_Overwrite ==
    [][(Returned("insert")' /\ Last'.key \in KeysOf(root))
          => (_search(root', Last'.key) = Last'.value /\ _size(root') = size)]_vars

\* C4: the cached height of every node is 1 + the larger of the true heights
\* of its subtrees.
C4_HeightCache ==
    \A n \in Nodes(root) :
        n.height = 1 + Max(TrueHeight(n.left), TrueHeight(n.right))

\* A call that rotated in a tree of height 3.
C4_Witness ==
    /\ hist # <<>>
    /\ Rotations(Last.log) # <<>>
    /\ TrueHeight(root) = 3

\* C5: size() is the number of keys inserted and not deleted since.
C5_Size == size = Cardinality(DOMAIN ref)

\* C6: when insert is only called with keys that are not stored, search(k)
\* returns the value of the reference map for every key k (None for a key
\* never inserted or deleted since), and delete(k) changes the search result
\* of no other key.
C6_RefMap == \A k \in DistinctKeys : search(k) = RefGet(k)

C6_DeleteFrame ==
    Returned("delete")' =>
        \A j \in DistinctKeys \ {Last'.key} : _search(root', j) = search(j)

C6_ReferenceMap == [](C6_RefMap) /\ [][C6_DeleteFrame]_vars

\* A two-children delete has just removed a key while others stay stored.
C6_Witness ==
    /\ hist # <<>>
    /\ Last.op = "delete"
    /\ Last.key \notin DOMAIN ref
    /\ Last.log # <<>>
    /\ Cardinality(DOMAIN ref) >= 4
    /\ \E k \in DOMAIN ref : k > Last.key /\ search(k) = "a"
    /\ \E k \in DOMAIN ref : k > Last.key /\ search(k) = "b"

\* C7: delete(k) of a key that is not stored leaves every node where it was,
\* with its key, value and cached height, so search, size and the four
\* traversals return what they returned before.
C7_DeleteAbsent ==
    [][(Returned("delete")' /\ Last'.key \notin KeysOf(root)) =>
              /\ root' = Label(root, 1)
              /\ _size(root') = size
              /\ \A j \in Keys : _search(root', j) = search(j)
              /\ \A visit \in BOOLEAN :
                    /\ _inorder(root', visit, NoKeys) = inorder(visit)
                    /\ _preorder(root', visit, NoKeys) = preorder(visit)
                    /\ _postorder(root', visit, NoKeys) = postorder(visit)
                    /\ bforder_of(root', visit) = bforder(visit)]_vars

\* delete of an absent key has walked a path of three nodes.
C7_Witness ==
    /\ hist # <<>>
    /\ Last.op = "delete"
    /\ Last.key \notin KeysOf(root)
    /\ root = Label(root, 1)
    /\ Len(SelectSeq(Last.log, LAMBDA e : e.f = "balance")) = 3

\* The keys of the calls made so far, in call order.
HistKeySeq == [i \in 1..Len(hist) |-> hist[i].key]

RotationsAt(log) ==
    LET r == Rotations(log) IN [i \in 1..Len(r) |-> <<r[i].f, r[i].id>>]

IsLeaf(node, key) ==
    node # Nil /\ node.key = key /\ node.left = Nil /\ node.right = Nil
               /\ node.height = 1

\* C8: 10,20,30 (left rotation at 10), 30,20,10 (right rotation at 30) and
\* 30,10,20 (left rotation at 10, then right rotation at 30) inserted into
\* an empty tree give root 20 of height 2 with the leaves 10 and 30, and
\* inorder() = [10,20,30].
C8_ThreeKeys ==
    (Building /\ HistKeySeq \in {<<10, 20, 30>>, <<30, 20, 10>>, <<30, 10, 20>>})
    => /\ root.key = 20
       /\ root.height = 2
       /\ IsLeaf(root.left, 10)
       /\ IsLeaf(root.right, 30)
       /\ inorder(FALSE).keys = <<10, 20, 30>>
       /\ RotationsAt(Last.log) =
             CASE HistKeySeq = <<10, 20, 30>> -> << <<"rotate_left", 1>> >>
               [] HistKeySeq = <<30, 20, 10>> -> << <<"rotate_right", 1>> >>
               [] HistKeySeq = <<30, 10, 20>> ->
                      << <<"rotate_left", 2>>, <<"rotate_right", 1>> >>

C8_Witness == Building /\ HistKeySeq = <<30, 10, 20>>

RECURSIVE Ids(_)
Ids(node) ==
    IF node = Nil THEN {} ELSE {node.id} \cup Ids(node.left) \cup Ids(node.right)

NodeById(tree, i) == CHOOSE m \in Nodes(tree) : m.id = i

Without(seq, k) == SelectSeq(seq, LAMBDA x : x # k)

\* delete(k) of a stored key k whose node n has two children, in the tree
\* `before` : the node s with the smallest key above k is in n's right
\* subtree; afterwards s is gone, n holds s's key and value, every other
\* node holds what it held, inorder() has lost exactly k, the tree is balanced.
C9_TwoChildren(before, k, after) ==
    LET n == CHOOSE m \in Nodes(before) : m.key = k
    IN  (n.left # Nil /\ n.right # Nil) =>
        LET above == {j \in KeysOf(before) : j > k}
            s == CHOOSE m \in Nodes(before) :
                     m.key \in above /\ \A j \in above : m.key <= j
        IN  /\ s \in Nodes(n.right)
            /\ s.left = Nil
            /\ Ids(after) = Ids(before) \ {s.id}
            /\ NodeById(after, n.id).key = s.key
            /\ NodeById(after, n.id).value = s.value
            /\ \A m \in Nodes(before) :
                  m.id \notin {n.id, s.id} =>
                      /\ NodeById(after, m.id).key = m.key
                      /\ NodeById(after, m.id).value = m.value
            /\ _inorder(after, FALSE, NoKeys).keys =
                  Without(_inorder(before, FALSE, NoKeys).keys, k)
            /\ Balanced(after)

C9_Step ==
    \A k \in UNION ScenarioKeySets :
        (Returned("delete")' /\ Last'.key = k /\ k \in KeysOf(root))
            => C9_TwoChildren(Label(root, 1), k, root')

C9_Scenario ==
    (HistKeySeq = <<5, 3, 8, 1, 4, 7, 9, 3>> /\ Last.op = "delete")
        => (inorder(FALSE).keys = <<1, 4, 5, 7, 8, 9>> /\ Balanced(root))

\* C9: deleting a stored key whose node has two children, from a tree of
\* distinct keys, puts the in-order successor's key and value in that node
\* and removes the successor node; inorder() loses exactly the deleted key
\* and the tree stays balanced.  [5,3,8,1,4,7,9] then delete 3 gives
\* inorder() = [1,4,5,7,8,9].
C9_DeleteTwoChildren == [](C9_Scenario) /\ [][C9_Step]_vars

C9_Witness == HistKeySeq = <<5, 3, 8, 1, 4, 7, 9, 3>> /\ Last.op = "delete"

\* The keys at depth d of a subtree, left to right.
RECURSIVE LevelKeys(_, _)
LevelKeys(node, d) ==
    IF node = Nil THEN <<>>
    ELSE IF d = 0 THEN <<node.key>>
    ELSE LevelKeys(node.left, d - 1) \o LevelKeys(node.right, d - 1)

RECURSIVE LevelOrder(_, _)
LevelOrder(tree, d) ==
    IF d >= TrueHeight(tree) THEN <<>>
    ELSE LevelKeys(tree, d) \o LevelOrder(tree, d + 1)

\* C10: bforder() returns one key per node, level by level from the root
\* and left to right within a level; the loop runs once per node and once
\* per absent child (plus once for an absent root), so absent children are
\* dequeued without being expanded.  Root 20 with leaves 10 and 30 gives
\* [20, 10, 30].
C10_BreadthFirst ==
    \A visit \in BOOLEAN :
        /\ bforder(visit).keys = LevelOrder(root, 0)
        /\ Len(bforder(visit).keys) = size
        /\ bforder(visit).pops = 2 * size + 1
        /\ (root # Nil /\ root.key = 20 /\ IsLeaf(root.left, 10)
                       /\ IsLeaf(root.right, 30))
               => bforder(visit).keys = <<20, 10, 30>>

C10_Witness ==
    /\ root # Nil
    /\ root.key = 20
    /\ IsLeaf(root.left, 10)
    /\ IsLeaf(root.right, 30)
    /\ bforder(FALSE).keys = <<20, 10, 30>>

\* The nodes of a subtree in the three depth-first orders.
RECURSIVE NodesLNR(_)
NodesLNR(node) ==
    IF node = Nil THEN <<>>
    ELSE NodesLNR(node.left) \o <<node>> \o NodesLNR(node.right)

RECURSIVE NodesNLR(_)
NodesNLR(node) ==
    IF node = Nil THEN <<>>
    ELSE <<node>> \o NodesNLR(node.left) \o NodesNLR(node.right)

RECURSIVE NodesLRN(_)
NodesLRN(node) ==
    IF node = Nil THEN <<>>
    ELSE NodesLRN(node.left) \o NodesLRN(node.right) \o <<node>>

KeySeq(nodes) == [i \in 1..Len(nodes) |-> nodes[i].key]

ValueSeq(nodes) == [i \in 1..Len(nodes) |-> nodes[i].value]

\* A traversal's result `with` a callback and `without` one, against the
\* nodes in the order the traversal is named for.
C11_Agrees(with, without, nodes) ==
    /\ with.keys = KeySeq(nodes)
    /\ without.keys = with.keys
    /\ with.calls = ValueSeq(nodes)
    /\ without.calls = <<>>
    /\ Len(with.calls) = size

\* C11: inorder, preorder and postorder return the same keys with and
\* without a callback, and a supplied callback is invoked once per node, on
\* the node's value, in the order of the returned keys (left-node-right,
\* node-left-right, left-right-node).
C11_Traversals ==
    /\ C11_Agrees(inorder(TRUE), inorder(FALSE), NodesLNR(root))
    /\ C11_Agrees(preorder(TRUE), preorder(FALSE), NodesNLR(root))
    /\ C11_Agrees(postorder(TRUE), postorder(FALSE), NodesLRN(root))

\* Five nodes holding both values, on which the three orders differ.
C11_Witness ==
    /\ size = 5
    /\ {"a", "b"} \subseteq {n.value : n \in Nodes(root)}
    /\ inorder(TRUE).calls # preorder(TRUE).calls
    /\ inorder(TRUE).calls # postorder(TRUE).calls
    /\ preorder(TRUE).keys # postorder(TRUE).keys

\* C12: search(key), for a key that is stored or not, leaves every node where
\* it was with its key, value and cached height, and performs no rotation.
C12_SearchPure ==
    [][Returned("search")' =>
          /\ root' = Label(root, 1)
          /\ Last'.log = <<>>
          /\ _size(root') = size
          /\ \A visit \in BOOLEAN :
                _inorder(root', visit, NoKeys) = inorder(visit)]_vars

\* A search that found nothing and one that found a value, in a tree of
\* height 3.
C12_Witness ==
    /\ Returned("search")
    /\ TrueHeight(root) = 3
    /\ Last.value = None
    /\ \E k \in Keys : search(k) # None

IsRotation(e) == e.f \in {"rotate_left", "rotate_right"}

\* The balance calls of a log that restructured: those directly followed by
\* a rotation (a second rotation follows the first in a double rotation).
Restructurings(log) ==
    {i \in 1..(Len(log) - 1) : log[i].f = "balance" /\ IsRotation(log[i + 1])}

BalanceCalls(log) == {i \in 1..Len(log) : log[i].f = "balance"}

\* C13: one insert restructures (by a single or a double rotation) at no
\* more than one node of the insertion path; at every other node of the
\* path balance returns the node it was given.
C13_OneRestructuring ==
    Returned("insert") =>
        /\ Cardinality(Restructurings(Last.log)) <= 1
        /\ Len(Rotations(Last.log)) <= 2
        /\ \A i \in BalanceCalls(Last.log) \ Restructurings(Last.log) :
              balance(Last.log[i].arg).node = Last.log[i].arg

\* An insert that made a double rotation below the root, the root's own
\* balance call changing nothing.
C13_Witness ==
    /\ Returned("insert")
    /\ Len(Rotations(Last.log)) = 2
    /\ Cardinality(Restructurings(Last.log)) = 1
    /\ Cardinality(BalanceCalls(Last.log)) = 3
    /\ Last.log[Len(Last.log)].f = "balance"

\* The (key, value) pairs of a subtree in inorder.
PairSeq(node) ==
    LET nodes == NodesLNR(node)
    IN  [i \in 1..Len(nodes) |-> <<nodes[i].key, nodes[i].value>>]

HeightCached(n) == n.height = 1 + Max(TrueHeight(n.left), TrueHeight(n.right))

SameObject(m, n) == m.id = n.id /\ m.key = n.key /\ m.value = n.value

NonDescending(seq) == \A i \in 1..(Len(seq) - 1) : seq[i] <= seq[i + 1]

\* rotate_right(n) = r for a node n with a left child c: c is the new root
\* and n its right child, the three subtrees hanging below them are the
\* same objects, untouched, in the same left-to-right order, and both
\* cached heights are true.
C14_RotatedRight(n, r) ==
    /\ SameObject(r, n.left)
    /\ SameObject(r.right, n)
    /\ r.left = n.left.left
    /\ r.right.left = n.left.right
    /\ r.right.right = n.right
    /\ PairSeq(r) = PairSeq(n)
    /\ HeightCached(r.right)
    /\ HeightCached(r)

C14_RotatedLeft(n, r) ==
    /\ SameObject(r, n.right)
    /\ SameObject(r.left, n)
    /\ r.right = n.right.right
    /\ r.left.right = n.right.left
    /\ r.left.left = n.left
    /\ PairSeq(r) = PairSeq(n)
    /\ HeightCached(r.left)
    /\ HeightCached(r)

\* C14: at every rotation an insert or delete performed, and at every node
\* of the tree that has the child to rotate about, rotate_right and
\* rotate_left return the former child as the new root, keep the inorder
\* sequence of (key, value) pairs (so the order of the keys), touch no node
\* but the pivot and that child, and leave both with true cached heights.
C14_Rotations ==
    /\ \A n \in Nodes(root) :
          /\ n.left # Nil => C14_RotatedRight(n, rotate_right(n))
          /\ n.right # Nil => C14_RotatedLeft(n, rotate_left(n))
    /\ hist # <<>> =>
          \A i \in 1..Len(Last.log) :
              LET e == Last.log[i]
              IN  /\ e.f = "rotate_right" =>
                        /\ C14_RotatedRight(e.arg, rotate_right(e.arg))
                        /\ NonDescending(KeySeq(NodesLNR(rotate_right(e.arg))))
                  /\ e.f = "rotate_left" =>
                        /\ C14_RotatedLeft(e.arg, rotate_left(e.arg))
                        /\ NonDescending(KeySeq(NodesLNR(rotate_left(e.arg))))

\* A call has rotated a node whose child had two subtrees, one of which
\* changed parent.
C14_Witness ==
    /\ hist # <<>>
    /\ \E i \in 1..Len(Last.log) :
          /\ Last.log[i].f = "rotate_left"
          /\ Last.log[i].arg.right.left # Nil
          /\ Last.log[i].arg.right.right # Nil

\* balance(n) = b for a node n whose subtrees are balanced and whose cached
\* heights (its own included) are true.
C15_Balanced(n, b) ==
    LET bf == TrueHeight(n.left) - TrueHeight(n.right)
        r  == b.node
    IN  /\ balance_factor(n) = bf
        /\ bf \in -2..2
        /\ bf \in -1..1 => (r = n /\ RotationsAt(b.log) = <<>>)
        /\ bf = 2 =>
              LET c == n.left
              IN  IF TrueHeight(c.left) - TrueHeight(c.right) < 0
                  THEN /\ RotationsAt(b.log) =
                            << <<"rotate_left", c.id>>, <<"rotate_right", n.id>> >>
                       /\ SameObject(r, c.right)
                       /\ SameObject(r.left, c)
                       /\ SameObject(r.right, n)
                  ELSE /\ RotationsAt(b.log) = << <<"rotate_right", n.id>> >>
                       /\ SameObject(r, c)
                       /\ SameObject(r.right, n)
        /\ bf = -2 =>
              LET c == n.right
              IN  IF TrueHeight(c.left) - TrueHeight(c.right) > 0
                  THEN /\ RotationsAt(b.log) =
                            << <<"rotate_right", c.id>>, <<"rotate_left", n.id>> >>
                       /\ SameObject(r, c.left)
                       /\ SameObject(r.right, c)
                       /\ SameObject(r.left, n)
                  ELSE /\ RotationsAt(b.log) = << <<"rotate_left", n.id>> >>
                       /\ SameObject(r, c)
                       /\ SameObject(r.left, n)
        /\ Balanced(r)
        /\ \A m \in Nodes(r) : HeightCached(m)
        /\ PairSeq(r) = PairSeq(n)

C15_Pre(n) ==
    /\ Balanced(n.left)
    /\ Balanced(n.right)
    /\ \A m \in Nodes(n) : HeightCached(m)

\* C15: at every balance call of an insert or delete the node's subtrees
\* are balanced and the cached heights true, and balance returns the node
\* untouched for a factor in -1..1, rotates it right for +2 (after rotating
\* its left child left exactly when that child's factor is negative) and
\* left for -2 (after rotating its right child right exactly when that
\* child's factor is positive); the result is balanced at every node and
\* has the inorder sequence of the argument.
C15_Balance ==
    hist # <<>> =>
        \A i \in BalanceCalls(Last.log) :
            /\ C15_Pre(Last.log[i].arg)
            /\ C15_Balanced(Last.log[i].arg, balance(Last.log[i].arg))

\* A delete left a node two higher on one side, the heavy child having
\* factor 0.
C15_Witness ==
    /\ Returned("delete")
    /\ \E i \in BalanceCalls(Last.log) :
          /\ Last.log[i].bf = -2
          /\ balance_factor(Last.log[i].arg.right) = 0

\* The positions above position p, nearest first, up to the root.
RECURSIVE Ancestors(_)
Ancestors(p) == IF p <= 1 THEN <<>> ELSE <<p \div 2>> \o Ancestors(p \div 2)

\* The position at which insert(key, ...) hangs the new leaf.
RECURSIVE InsertPoint(_, _, _)
InsertPoint(tree, key, p) ==
    IF tree = Nil THEN p
    ELSE IF key < tree.key THEN InsertPoint(tree.left, key, 2 * p)
    ELSE InsertPoint(tree.right, key, 2 * p + 1)

\* The update_height and balance calls of a log, with the node of each.
Steps(log) ==
    LET s == SelectSeq(log, LAMBDA e : e.f \in {"update_height", "balance"})
    IN  [i \in 1..Len(s) |-> <<s[i].f, s[i].id>>]

\* update_height then balance at each node of `path`, in path order.
RECURSIVE Expected(_)
Expected(path) ==
    IF path = <<>> THEN <<>>
    ELSE << <<"update_height", Head(path)>>, <<"balance", Head(path)>> >>
             \o Expected(Tail(path))

\* Every balance call reads a factor computed from a height recomputed just
\* before: its argument's cached height is that of its children plus one.
C16_Fresh(log) ==
    \A i \in BalanceCalls(log) :
        /\ i > 1
        /\ log[i - 1].f = "update_height"
        /\ log[i - 1].id = log[i].id
        /\ log[i].arg.height =
              1 + Max(height_or_0(log[i].arg.left), height_or_0(log[i].arg.right))

C16_Step ==
    /\ Returned("insert")' =>
          /\ Steps(Last'.log) =
                Expected(Ancestors(InsertPoint(Label(root, 1), Last'.key, 1)))
          /\ C16_Fresh(Last'.log)
    /\ Returned("delete")' =>
          /\ \A p \in Ids(Label(root, 1)) \ Ids(root') :
                Steps(Last'.log) = Expected(Ancestors(p))
          /\ C16_Fresh(Last'.log)

\* C16: one insert or delete calls update_height and then balance at every
\* node from the parent of the inserted or physically removed node up to
\* the root, the deeper node first, and at no other node; each balance call
\* follows the update_height call on the same node.  In the two-children
\* case the removed node is the successor, so the deleted key's own node is
\* among them.
C16_BottomUp == [][C16_Step]_vars

\* A delete of the root's key in the two-children case: the root object now
\* holds a greater key, the successor was two levels down (position 6), and
\* its parent and the root were processed, in that order.
C16_Witness ==
    /\ Returned("delete")
    /\ 6 \notin Ids(root)
    /\ {1, 3} \subseteq Ids(root)
    /\ NodeById(root, 1).key > Last.key
    /\ Steps(Last.log) = Expected(<<3, 1>>)

\* C17: at every balance call of an insert or delete the balance factor read
\* from the cached heights is in -2..2; the child balance looks into (the
\* left one for a factor above 1, the right one below -1) is present, and
\* so is the child every rotation makes the new root.
C17_Defined ==
    hist # <<>> =>
        \A i \in 1..Len(Last.log) :
            LET e == Last.log[i]
            IN  /\ e.f = "balance" =>
                      /\ e.bf = balance_factor(e.arg)
                      /\ e.bf \in -2..2
                      /\ e.bf > 1 => e.arg.left # Nil
                      /\ e.bf < -1 => e.arg.right # Nil
                /\ e.f = "rotate_right" => e.arg.left # Nil
                /\ e.f = "rotate_left" => e.arg.right # Nil

\* A delete made balance look into the right child (factor -2), and an
\* inner rotation took that child's left child as new root.
C17_Witness ==
    /\ Returned("delete")
    /\ \E i \in 1..(Len(Last.log) - 2) :
          /\ Last.log[i].f = "balance"
          /\ Last.log[i].bf = -2
          /\ Last.log[i + 1].f = "rotate_right"
          /\ Last.log[i + 2].f = "rotate_left"

\* How many nodes of a tree (whose nodes have distinct ids) hold (k, v).
PairCount(tree, k, v) ==
    Cardinality({n \in Nodes(tree) : n.key = k /\ n.value = v})

\* `after` holds the pairs of `before` less one pair (k, v).
LostOnePair(before, after, k, v) ==
    \A k2 \in Keys, v2 \in Values :
        PairCount(after, k2, v2) =
            PairCount(before, k2, v2) - (IF k2 = k /\ v2 = v THEN 1 ELSE 0)

\* C18: delete(k) of a stored key k, duplicates or not, makes size() one
\* less and removes one pair whose key is k from the multiset of stored
\* (key, value) pairs, leaving every other pair as many times as before.
C18_DeleteOne ==
    [][(Returned("delete")' /\ Last'.key \in KeysOf(root)) =>
          /\ _size(root') = size - 1
          /\ \E v \in Values :
                LostOnePair(Label(root, 1), root', Last'.key, v)]_vars

\* seq with x put in after its first i entries.
InsertedAfter(seq, i, x) ==
    SubSeq(seq, 1, i) \o <<x>> \o SubSeq(seq, i + 1, Len(seq))

\* insert(k, v) took the tree `before` to `after`, making the calls of log.
C19_Inserted(before, k, v, log, after) ==
    LET new    == NodeById(after, NewId)
        pairs  == PairSeq(before)
        upto   == Cardinality({i \in 1..Len(pairs) : pairs[i][1] <= k})
        hung   == IF log = <<>> THEN after
                  ELSE IF log[1].arg.left # Nil /\ log[1].arg.left.id = NewId
                  THEN log[1].arg.left ELSE log[1].arg.right
    IN  /\ Ids(after) = Ids(before) \cup {NewId}
        /\ _size(after) = _size(before) + 1
        /\ new.key = k
        /\ new.value = v
        /\ hung = AVLNode(NewId, k, v)
        /\ log # <<>> => log[1].id = InsertPoint(before, k, 1) \div 2
        /\ \A m \in Nodes(before) :
              /\ NodeById(after, m.id).key = m.key
              /\ NodeById(after, m.id).value = m.value
        /\ \A k2 \in Keys, v2 \in Values :
              PairCount(after, k2, v2) =
                  PairCount(before, k2, v2) + (IF k2 = k /\ v2 = v THEN 1 ELSE 0)
        /\ PairSeq(after) = InsertedAfter(pairs, upto, <<k, v>>)

\* C19: every insert(key, value), of a stored key or not, constructs one
\* node holding (key, value), hung as a leaf at the point of insertion
\* (after the stored keys that are not greater), and changes the key and
\* value of no node that existed; size() and the multiset of stored pairs
\* grow by exactly that one pair.
C19_InsertOne ==
    [][Returned("insert")' =>
          C19_Inserted(Label(root, 1), Last'.key, Last'.value, Last'.log, root')]_vars

\* A stored key has been inserted again with the other value, and the
\* rebalancing that followed moved the new node off the bottom.
C19_Witness ==
    /\ Returned("insert")
    /\ Rotations(Last.log) # <<>>
    /\ NewId \in Ids(root)
    /\ NodeById(root, NewId).left # Nil
    /\ \E n \in Nodes(root) :
          n.id # NewId /\ n.key = Last.key /\ n.value # Last.value

=============================================================================
